---- MODULE Spec2Model ----
(***************************************************************************)
(* The 'User Name' reconciliation of the Teachers' Day dashboard           *)
(* (src/app.py, lines 40-49): the rows of the uploaded sheet, the          *)
(* candidate list standard_sbms, and the row-wise application of match_sbm *)
(* with thefuzz's process.extractOne (default processor full_process,      *)
(* default scorer WRatio, as in thefuzz >= 0.20 on top of rapidfuzz).      *)
(*                                                                         *)
(* A text is a sequence of one-character strings.  A cell of the           *)
(* 'User Name' column holds NaN or the number of a text of LabelText.      *)
(***************************************************************************)
EXTENDS Integers, Sequences, FiniteSets, TLC

(***************************************************************************)
(* Texts                                                                   *)
(***************************************************************************)

\* The characters the labels use, in the order of their code points.
Alphabet ==
    << " ", "0", "1", "2", "3", "4", "5", "6", "7", "8", "9", "A", "R",
       "a", "b", "e", "h", "l", "m", "o", "r", "s", "t", "u" >>

Digits == << "0", "1", "2", "3", "4", "5", "6", "7", "8", "9" >>

\* ord(c), up to an order-preserving renumbering
Code(c) == CHOOSE k \in 1..Len(Alphabet) : Alphabet[k] = c

\* str.lower on one character
Lower(c) == IF c = "A" THEN "a" ELSE IF c = "R" THEN "r" ELSE c

\* str.isalnum on one character
IsAlnum(c) == c # " "

Max2(a, b) == IF a >= b THEN a ELSE b

Min2(a, b) == IF a <= b THEN a ELSE b

\* str.strip(): leading and trailing white space removed
Strip(s) ==
    LET keep == { i \in 1..Len(s) : s[i] # " " }
        lo == CHOOSE i \in keep : \A j \in keep : i <= j
        hi == CHOOSE i \in keep : \A j \in keep : j <= i
    IN  IF keep = {} THEN << >> ELSE SubSeq(s, lo, hi)

\* thefuzz.utils.full_process = rapidfuzz.utils.default_process: every
\* non-alphanumeric character becomes a space, the text is lowercased and
\* stripped.
full_process(s) ==
    Strip([ i \in 1..Len(s) |-> IF IsAlnum(s[i]) THEN Lower(s[i]) ELSE " " ])

\* Python's < on two texts
RECURSIVE LexLess(_, _)
LexLess(a, b) ==
    IF b = << >> THEN FALSE
    ELSE IF a = << >> THEN TRUE
    ELSE IF Head(a) = Head(b) THEN LexLess(Tail(a), Tail(b))
    ELSE Code(Head(a)) < Code(Head(b))

\* str.split(): the words of a text, white space separating them
RECURSIVE Split(_)
Split(s) ==
    IF s = << >> THEN << >>
    ELSE IF Head(s) = " " THEN Split(Tail(s))
    ELSE LET stops == { i \in 1..Len(s) : s[i] = " " }
             n == IF stops = {} THEN Len(s) + 1
                  ELSE CHOOSE i \in stops : \A j \in stops : i <= j
         IN  << SubSeq(s, 1, n - 1) >> \o Split(SubSeq(s, n, Len(s)))

\* " ".join(words)
RECURSIVE Join(_)
Join(words) ==
    IF words = << >> THEN << >>
    ELSE IF Len(words) = 1 THEN words[1]
    ELSE words[1] \o << " " >> \o Join(Tail(words))

\* sorted(words) of a set of distinct words
RECURSIVE SortedSet(_)
SortedSet(W) ==
    IF W = {} THEN << >>
    ELSE LET m == CHOOSE w \in W : \A v \in W : v = w \/ LexLess(w, v)
         IN  << m >> \o SortedSet(W \ {m})

\* sorted(words) of a list of words, repeated words kept
RECURSIVE InsertWord(_, _)
InsertWord(w, sorted) ==
    IF sorted = << >> THEN << w >>
    ELSE IF LexLess(Head(sorted), w) THEN << Head(sorted) >> \o InsertWord(w, Tail(sorted))
    ELSE << w >> \o sorted

RECURSIVE SortedList(_)
SortedList(words) ==
    IF words = << >> THEN << >>
    ELSE InsertWord(Head(words), SortedList(Tail(words)))

Range(f) == { f[i] : i \in DOMAIN f }

(***************************************************************************)
(* rapidfuzz.fuzz: the scores.  A score is an exact fraction [n, d] with   *)
(* d > 0 (the library computes the same value in floating point).          *)
(***************************************************************************)

Frac(n, d) == [n |-> n, d |-> d]

FracLess(x, y) == x.n * y.d < y.n * x.d

FracMax(x, y) == IF FracLess(x, y) THEN y ELSE x

\* the largest fraction of a non-empty set
FracMaxOf(S) == CHOOSE x \in S : \A y \in S : ~FracLess(x, y)

\* x * p / q
Scaled(x, p, q) == Frac(x.n * p, x.d * q)

\* int(round(x)): Python rounds a half to the even neighbour
RoundInt(x) ==
    LET q == x.n \div x.d
        r == x.n % x.d
    IN  IF 2 * r < x.d THEN q
        ELSE IF 2 * r > x.d THEN q + 1
        ELSE IF q % 2 = 0 THEN q ELSE q + 1

\* One row of the longest-common-subsequence table: acc[k] is the entry of
\* column k - 1.
RECURSIVE LcsRow(_, _, _, _)
LcsRow(prev, ch, b, acc) ==
    LET j == Len(acc)
    IN  IF j > Len(b) THEN acc
        ELSE LcsRow(prev, ch, b,
                    Append(acc, IF ch = b[j] THEN prev[j] + 1
                                ELSE Max2(prev[j + 1], acc[j])))

RECURSIVE LcsFrom(_, _, _, _)
LcsFrom(a, b, i, prev) ==
    IF i > Len(a) THEN prev[Len(b) + 1]
    ELSE LcsFrom(a, b, i + 1, LcsRow(prev, a[i], b, << 0 >>))

\* the length of the longest common subsequence
LCS(a, b) == LcsFrom(a, b, 1, [ k \in 1..(Len(b) + 1) |-> 0 ])

\* Indel distance: insertions and deletions only
IndelDistance(a, b) == Len(a) + Len(b) - 2 * LCS(a, b)

\* 100 - 100 * dist / lensum (100 when lensum is 0)
NormDistance(dist, lensum) ==
    IF lensum = 0 THEN Frac(100, 1) ELSE Frac(100 * (lensum - dist), lensum)

\* fuzz.ratio
ratio(a, b) == NormDistance(IndelDistance(a, b), Len(a) + Len(b))

\* fuzz.token_sort_ratio
token_sort_ratio(a, b) ==
    ratio(Join(SortedList(Split(a))), Join(SortedList(Split(b))))

\* fuzz.token_set_ratio
token_set_ratio(a, b) ==
    LET tokens_a == Range(Split(a))
        tokens_b == Range(Split(b))
        intersect == tokens_a \cap tokens_b
        diff_ab == Join(SortedSet(tokens_a \ tokens_b))
        diff_ba == Join(SortedSet(tokens_b \ tokens_a))
        ab_len == Len(diff_ab)
        ba_len == Len(diff_ba)
        sect_len == Len(Join(SortedSet(intersect)))
        gap == IF sect_len > 0 THEN 1 ELSE 0
        sect_ab_len == sect_len + gap + ab_len
        sect_ba_len == sect_len + gap + ba_len
        best == NormDistance(IndelDistance(diff_ab, diff_ba), sect_ab_len + sect_ba_len)
        sect_ab_ratio == NormDistance(gap + ab_len, sect_len + sect_ab_len)
        sect_ba_ratio == NormDistance(gap + ba_len, sect_len + sect_ba_len)
    IN  IF tokens_a = {} \/ tokens_b = {} THEN Frac(0, 1)
        ELSE IF intersect # {} /\ (tokens_a \subseteq tokens_b \/ tokens_b \subseteq tokens_a)
             THEN Frac(100, 1)
        ELSE IF sect_len = 0 THEN best
        ELSE FracMax(best, FracMax(sect_ab_ratio, sect_ba_ratio))

\* fuzz.token_ratio: the larger of token_sort_ratio and token_set_ratio
token_ratio(a, b) == FracMax(token_sort_ratio(a, b), token_set_ratio(a, b))

\* The parts of the longer text the shorter one is aligned with: every window
\* of the shorter text's length, and the shorter prefixes and suffixes.
Windows(long, n) ==
    { SubSeq(long, i, j) : <<i, j>> \in
        { p \in (1..Len(long)) \X (1..Len(long)) :
            /\ p[1] <= p[2]
            /\ p[2] - p[1] + 1 <= n
            /\ (p[2] - p[1] + 1 = n \/ p[1] = 1 \/ p[2] = Len(long)) } }

\* the best ratio of a non-empty text against a part of a longer one
partial_ratio_impl(short, long) ==
    FracMaxOf({ ratio(short, w) : w \in Windows(long, Len(short)) })

\* fuzz.partial_ratio: the best ratio of the shorter text against a part of
\* the longer one (texts of one length are aligned both ways)
partial_ratio(a, b) ==
    IF Len(a) = 0 /\ Len(b) = 0 THEN Frac(100, 1)
    ELSE IF Len(a) = 0 \/ Len(b) = 0 THEN Frac(0, 1)
    ELSE IF Len(a) < Len(b) THEN partial_ratio_impl(a, b)
    ELSE IF Len(b) < Len(a) THEN partial_ratio_impl(b, a)
    ELSE FracMax(partial_ratio_impl(a, b), partial_ratio_impl(b, a))

\* fuzz.partial_token_ratio
partial_token_ratio(a, b) ==
    LET split_a == Split(a)
        split_b == Split(b)
        tokens_a == Range(split_a)
        tokens_b == Range(split_b)
        diff_ab == tokens_a \ tokens_b
        diff_ba == tokens_b \ tokens_a
        best == partial_ratio(Join(SortedList(split_a)), Join(SortedList(split_b)))
    IN  IF tokens_a \cap tokens_b # {} THEN Frac(100, 1)
        ELSE IF Len(split_a) = Cardinality(diff_ab) /\ Len(split_b) = Cardinality(diff_ba)
             THEN best
        ELSE FracMax(best, partial_ratio(Join(SortedSet(diff_ab)), Join(SortedSet(diff_ba))))

\* fuzz.WRatio on two processed texts
WRatio(a, b) ==
    LET base == ratio(a, b)
        partial_p == IF 8 * Min2(Len(a), Len(b)) > Max2(Len(a), Len(b)) THEN 9 ELSE 6
        with_partial == FracMax(base, Scaled(partial_ratio(a, b), partial_p, 10))
    IN  IF a = << >> \/ b = << >> THEN Frac(0, 1)
        ELSE IF 2 * Max2(Len(a), Len(b)) < 3 * Min2(Len(a), Len(b))
             THEN FracMax(base, Scaled(token_ratio(a, b), 19, 20))
        ELSE FracMax(with_partial,
                     Scaled(partial_token_ratio(a, b), 19 * partial_p, 200))

(***************************************************************************)
(* The labels of the sheets explored.  A text cell holds the number of its *)
(* text.                                                                   *)
(***************************************************************************)

\* the 75 of standard_sbms = list(set(unique_sbms))[:75]
SliceLimit == 75

\* the 95 of "match if score > 95 else name"
Threshold == 95

\* pandas' missing value in a 'User Name' cell (the text cells are 1, 2, ...)
NaN == 0

\* the most rows of a sheet whose cells are chosen freely
MaxRows == 3

AshaRaoText == << "A", "s", "h", "a", " ", "R", "a", "o" >>

AshaRaoVariantText == << "a", "s", "h", "a", " ", "r", "a", "o", " " >>

BlankText == << " ", " " >>

RaoAshaText == << "r", "a", "o", " ", "a", "s", "h", "a" >>

RahulMehtaText == << "r", "a", "h", "u", "l", " ", "m", "e", "h", "t", "a" >>

RahulMehtaaText == << "r", "a", "h", "u", "l", " ", "m", "e", "h", "t", "a", "a" >>

NamedLabels ==
    << AshaRaoText, AshaRaoVariantText, BlankText, RaoAshaText, RahulMehtaText,
       RahulMehtaaText >>

\* the cell that holds a named text
Cell(text) == CHOOSE k \in 1..Len(NamedLabels) : NamedLabels[k] = text

AshaRao == Cell(AshaRaoText)

AshaRaoVariant == Cell(AshaRaoVariantText)

Blank == Cell(BlankText)

RaoAsha == Cell(RaoAshaText)

RahulMehta == Cell(RahulMehtaText)

RahulMehtaa == Cell(RahulMehtaaText)

\* Further sales representatives, "sbm01", "sbm02", ...: with four of the
\* named labels they fill a sheet past the 75 kept candidates.
NumFillers == SliceLimit - 2

FillerText(k) == << "s", "b", "m", Digits[(k \div 10) + 1], Digits[(k % 10) + 1] >>

NumLabels == Len(NamedLabels) + NumFillers

LabelText(k) ==
    IF k <= Len(NamedLabels) THEN NamedLabels[k] ELSE FillerText(k - Len(NamedLabels))

Fillers == [ k \in 1..NumFillers |-> Len(NamedLabels) + k ]

IsText(cell) == cell # NaN

\* The scores of the labels against each other, computed once: row i holds
\* WRatio of label i's processed text against every label's processed text.
RECURSIVE ScoreRow(_, _)
ScoreRow(i, acc) ==
    IF Len(acc) = NumLabels THEN acc
    ELSE ScoreRow(i, Append(acc, WRatio(full_process(LabelText(i)),
                                        full_process(LabelText(Len(acc) + 1)))))

RECURSIVE ScoreRows(_)
ScoreRows(acc) ==
    IF Len(acc) = NumLabels THEN acc
    ELSE ScoreRows(Append(acc, ScoreRow(Len(acc) + 1, << >>)))

ScoreTable == ScoreRows(<< >>)

\* the scorer as extractOne applies it: both sides processed, then WRatio
Score(name, choice) == ScoreTable[name][choice]

(***************************************************************************)
(* process.extractOne and match_sbm                                        *)
(***************************************************************************)

\* The choices extractOne scores: rapidfuzz skips a choice that is None or NaN.
Scored(choices) == { k \in 1..Len(choices) : IsText(choices[k]) }

\* The index of the choice extractOne returns: the first one with the highest
\* score (a later choice replaces the best so far only with a higher score).
BestIndex(name, choices) ==
    CHOOSE k \in Scored(choices) :
        \A j \in Scored(choices) :
            /\ j < k => FracLess(Score(name, choices[j]), Score(name, choices[k]))
            /\ j > k => ~FracLess(Score(name, choices[k]), Score(name, choices[j]))

\* process.extractOne(name, choices) = (match, score), the score rounded
extractOne(name, choices) ==
    LET k == BestIndex(name, choices)
    IN  [match |-> choices[k], score |-> RoundInt(Score(name, choices[k]))]

\* match_sbm raises: full_process of a NaN name is a TypeError, and without a
\* choice to score extractOne returns None, which does not unpack.
Raises(name, choices) == ~IsText(name) \/ Scored(choices) = {}

\* the comparison with the threshold not strict
match_sbm_ge(name, choices) ==
    LET found == extractOne(name, choices)
    IN  IF found.score >= Threshold THEN found.match ELSE name

\* match_sbm(name), with standard_sbms as choices
match_sbm(name, choices) ==
    LET found == extractOne(name, choices)
    IN  IF found.score > Threshold THEN found.match ELSE name

(***************************************************************************)
(* The sheet                                                               *)
(***************************************************************************)

VARIABLES
    pc,             \* the statement reached: loaded, cleaned, applying, done, failed
    df,             \* the rows: [user, student, state], 'User Name',
                    \* "Student Doctor's Name" and "Student Doctor's State"
    observed,       \* history: the 'User Name' column as line 49 found it
    unique_sbms,    \* df['User Name'].unique()
    standard_sbms,  \* list(set(unique_sbms))[:75]
    result          \* the values apply(match_sbm) has computed so far

vars == << pc, df, observed, unique_sbms, standard_sbms, result >>

UserName(frame) == [ i \in 1..Len(frame) |-> frame[i].user ]

Row(u) == [user |-> u, student |-> "Dr S", state |-> "Goa"]

RowsOf(cells) == [ i \in 1..Len(cells) |-> Row(cells[i]) ]

\* the cells of the freely chosen sheets
SmallCells == { NaN, AshaRao, AshaRaoVariant, Blank }

SmallRows ==
    { [user |-> u, student |-> o[1], state |-> o[2]] :
        u \in SmallCells,
        o \in { << "Dr S", "Goa" >>, << "NaN", "Goa" >>, << "Dr S", "NaN" >> } }

SmallFrames == UNION { [ 1..n -> SmallRows ] : n \in 0..MaxRows }

\* sheets with more distinct labels than standard_sbms keeps
BigFrames ==
    { RowsOf(<< AshaRao, RahulMehtaa >> \o Fillers \o << RaoAsha, RahulMehta >>),
      RowsOf(<< AshaRaoVariant >> \o Fillers \o << AshaRao >>) }

Init ==
    /\ pc = "loaded"
    /\ df \in SmallFrames \cup BigFrames
    /\ observed = UserName(df)
    /\ unique_sbms = << >>
    /\ standard_sbms = << >>
    /\ result = << >>

HasDoctor(row) == row.student # "NaN"

\* the rows that name a doctor, in order
RECURSIVE WithDoctor(_)
WithDoctor(frame) ==
    IF frame = << >> THEN << >>
    ELSE IF HasDoctor(Head(frame)) THEN << Head(frame) >> \o WithDoctor(Tail(frame))
    ELSE WithDoctor(Tail(frame))

\* line 40: df.dropna(subset=[the doctors' names], inplace=True)
DropNa ==
    /\ pc = "loaded"
    /\ df' = WithDoctor(df)
    /\ observed' = UserName(df')
    /\ pc' = "cleaned"
    /\ UNCHANGED << unique_sbms, standard_sbms, result >>

\* Series.unique(): the distinct values, NaN among them, in order of appearance
RECURSIVE Unique(_, _)
Unique(col, seen) ==
    IF col = << >> THEN seen
    ELSE IF Head(col) \in Range(seen) THEN Unique(Tail(col), seen)
    ELSE Unique(Tail(col), Append(seen, Head(col)))

Reverse(s) == [ i \in 1..Len(s) |-> s[Len(s) + 1 - i] ]

Rotate(s, r) == SubSeq(s, r + 1, Len(s)) \o SubSeq(s, 1, r)

\* list(set(values)): the order of a set of str is that of their hashes, which
\* Python draws afresh in every process.  The orders explored are the
\* rotations of the values and of their reverse: every order of up to three
\* values, and for more values every value at every place.
SetOrders(values) ==
    IF values = << >> THEN { << >> }
    ELSE { Rotate(values, r) : r \in 0..(Len(values) - 1) }
         \cup { Rotate(Reverse(values), r) : r \in 0..(Len(values) - 1) }

\* s[:n]
Take(s, n) == SubSeq(s, 1, Min2(n, Len(s)))

\* the candidates drawn from a master list of the named labels, not from the sheet
BuildCandidatesFromMaster ==
    /\ pc = "cleaned"
    /\ unique_sbms' = [ k \in 1..Len(NamedLabels) |-> k ]
    /\ \E order \in SetOrders(unique_sbms') :
           standard_sbms' = Take(order, SliceLimit)
    /\ pc' = "applying"
    /\ UNCHANGED << df, observed, result >>

\* lines 42-43
BuildCandidates ==
    /\ pc = "cleaned"
    /\ unique_sbms' = Unique(UserName(df), << >>)
    /\ \E order \in SetOrders(unique_sbms') :
           standard_sbms' = Take(order, SliceLimit)
    /\ pc' = "applying"
    /\ UNCHANGED << df, observed, result >>

\* each value written into the column as soon as it is computed
ApplyRowInPlace ==
    /\ pc = "applying"
    /\ Len(result) < Len(df)
    /\ ~Raises(df[Len(result) + 1].user, standard_sbms)
    /\ result' = Append(result, match_sbm(df[Len(result) + 1].user, standard_sbms))
    /\ df' = [df EXCEPT ![Len(result) + 1].user = result'[Len(result) + 1]]
    /\ UNCHANGED << pc, observed, unique_sbms, standard_sbms >>

\* line 49, the right-hand side, one row: match_sbm returns
ApplyRow ==
    /\ pc = "applying"
    /\ Len(result) < Len(df)
    /\ ~Raises(df[Len(result) + 1].user, standard_sbms)
    /\ result' = Append(result, match_sbm(df[Len(result) + 1].user, standard_sbms))
    /\ UNCHANGED << pc, df, observed, unique_sbms, standard_sbms >>

\* line 49, the right-hand side, one row: match_sbm raises and the script ends
ApplyFails ==
    /\ pc = "applying"
    /\ Len(result) < Len(df)
    /\ Raises(df[Len(result) + 1].user, standard_sbms)
    /\ pc' = "failed"
    /\ UNCHANGED << df, observed, unique_sbms, standard_sbms, result >>

\* the rows of a frame whose 'User Name' no earlier row carries
RECURSIVE FirstOfEach(_, _)
FirstOfEach(frame, seen) ==
    IF frame = << >> THEN << >>
    ELSE IF Head(frame).user \in seen THEN FirstOfEach(Tail(frame), seen)
    ELSE << Head(frame) >> \o FirstOfEach(Tail(frame), seen \cup {Head(frame).user})

\* the assignment followed by drop_duplicates(subset='User Name')
AssignDeduplicated ==
    /\ pc = "applying"
    /\ Len(result) = Len(df)
    /\ df' = FirstOfEach([ i \in 1..Len(df) |-> [df[i] EXCEPT !.user = result[i]] ], {})
    /\ pc' = "done"
    /\ UNCHANGED << observed, unique_sbms, standard_sbms, result >>

\* line 49, the assignment: df['User Name'] = the values computed
Assign ==
    /\ pc = "applying"
    /\ Len(result) = Len(df)
    /\ df' = [ i \in 1..Len(df) |-> [df[i] EXCEPT !.user = result[i]] ]
    /\ pc' = "done"
    /\ UNCHANGED << observed, unique_sbms, standard_sbms, result >>

Next == DropNa \/ BuildCandidates \/ ApplyRow \/ ApplyFails \/ Assign

Spec == Init /\ [][Next]_vars

(***************************************************************************)
(* The properties                                                          *)
(***************************************************************************)

\* The normalization of spec.md, section 3: trimmed and lowercased.
Normalize(s) == Strip([ i \in 1..Len(s) |-> Lower(s[i]) ])

\* standard_sbms has been built
Built == pc \in { "applying", "done", "failed" }

TextCells(col) == { c \in Range(col) : IsText(c) }

\* the highest score of a name against the text candidates
TopScore(name, choices) ==
    FracMaxOf({ Score(name, c) : c \in TextCells(choices) })

\* the candidates that share the highest score
Tied(name, choices) ==
    { c \in TextCells(choices) : ~FracLess(Score(name, c), TopScore(name, choices)) }

\* The candidate the tie-break policy of spec.md, section 4.2 step 4, names:
\* the one identical to the normalized name if it is among the tied, else the
\* lexicographically smallest of the tied.
PolicyChoice(name, choices) ==
    LET tied == Tied(name, choices)
        same == { c \in tied : LabelText(c) = Normalize(LabelText(name)) }
    IN  IF same # {} THEN CHOOSE c \in same : TRUE
        ELSE CHOOSE c \in tied :
                 \A e \in tied : e = c \/ LexLess(LabelText(c), LabelText(e))

\* C1: every text label that is a member of standard_sbms resolves to itself.
C1_IdentityMatch ==
    Built =>
        \A c \in TextCells(standard_sbms) : match_sbm(c, standard_sbms) = c

\* C2: when the candidates that share the highest score for an observed label
\* are accepted, the label resolves to the one of them identical to the
\* normalized label if there is one, else to the lexicographically smallest,
\* whatever the order of the list.
C2_TieBreak ==
    Built =>
        \A name \in TextCells(observed) :
            (/\ TextCells(standard_sbms) # {}
             /\ RoundInt(TopScore(name, standard_sbms)) > Threshold)
                => match_sbm(name, standard_sbms) = PolicyChoice(name, standard_sbms)

\* C3: the resolved label of every row is the one any other run on the same
\* sheet produces, that is, the one every order list(set(unique_sbms)) may
\* take produces.
C3_Determinism ==
    pc = "done" =>
        \A order \in SetOrders(unique_sbms) :
            \A i \in 1..Len(observed) :
                match_sbm(observed[i], Take(order, SliceLimit)) = df[i].user

\* C4: the text candidates are exactly the distinct non-null labels of the
\* observed column: every distinct observed label is a candidate.
C4_CandidatesAreObserved ==
    Built => TextCells(standard_sbms) = TextCells(observed)

\* C5: a computed value is a candidate with the highest score when that score,
\* rounded, is strictly greater than the threshold, and the row's own label
\* unchanged when it is less than or equal to the threshold.
C5_ThresholdAcceptance ==
    \A k \in 1..Len(result) :
        LET top == TopScore(observed[k], standard_sbms)
        IN  IF RoundInt(top) > Threshold
            THEN /\ result[k] \in TextCells(standard_sbms)
                 /\ ~FracLess(Score(observed[k], result[k]), top)
            ELSE result[k] = observed[k]

\* C5: a label outside the candidates whose best candidate scores exactly the
\* threshold has passed through, and one whose best candidate scores above it
\* (and below 100) has been replaced by that candidate.
C5_Witness ==
    /\ pc = "done"
    /\ \E k \in 1..Len(result) :
           /\ RoundInt(TopScore(observed[k], standard_sbms)) = Threshold
           /\ df[k].user = observed[k]
    /\ \E k \in 1..Len(result) :
           /\ RoundInt(TopScore(observed[k], standard_sbms)) \in (Threshold + 1)..99
           /\ df[k].user # observed[k]

\* C6: observed labels equal after normalization resolve to one value, and
\* every resolved label is a normalized text.
C6_Normalization ==
    pc = "done" =>
        /\ \A i, j \in 1..Len(observed) :
               Normalize(LabelText(observed[i])) = Normalize(LabelText(observed[j]))
                   => df[i].user = df[j].user
        /\ \A i \in 1..Len(df) :
               LabelText(df[i].user) = Normalize(LabelText(df[i].user))

\* C7: while the values are computed and after match_sbm has raised, the
\* 'User Name' column is the observed one, cell for cell; the column is
\* assigned only when no row's label made match_sbm raise.
C7_AtomicFailure ==
    /\ pc \in { "applying", "failed" } => UserName(df) = observed
    /\ pc = "done" => \A i \in 1..Len(observed) : ~Raises(observed[i], standard_sbms)
    /\ pc = "failed" => \E i \in 1..Len(observed) : Raises(observed[i], standard_sbms)

\* C7: match_sbm has raised after an earlier row's value was computed, and
\* that value differs from the row's label.
C7_Witness ==
    /\ pc = "failed"
    /\ \E k \in 1..Len(result) : result[k] # observed[k]

\* C8: no candidate is null, empty or white space only.
C8_NoNullCandidates ==
    Built =>
        \A c \in Range(standard_sbms) : IsText(c) /\ Strip(LabelText(c)) # << >>

\* a step from a state of the reconciliation keeps the rows and the other columns
KeepsRowsAndOtherColumns ==
    pc \in { "cleaned", "applying" } =>
        /\ Len(df') = Len(df)
        /\ \A i \in 1..Len(df) :
               df'[i].student = df[i].student /\ df'[i].state = df[i].state

\* C9: the steps of the reconciliation (lines 42-49) keep the number of rows
\* and every cell, null or not, of the other columns.
C9_RowCountInvariance == [][KeepsRowsAndOtherColumns]_vars

\* C9: the column has been assigned, a label has changed, and another column
\* holds a null.
C9_Witness ==
    /\ pc = "done"
    /\ UserName(df) # observed
    /\ \E i \in 1..Len(df) : df[i].state = "NaN"

\* C10: after the assignment every cell of the column is the row's own label or
\* a member of standard_sbms, which holds observed labels only, so it is a
\* label the column held before; the distinct labels are no more than before,
\* and rows that held one label hold one label.
C10_Closure ==
    pc = "done" =>
        /\ Range(standard_sbms) \subseteq Range(observed)
        /\ \A i \in 1..Len(df) :
               /\ df[i].user = observed[i] \/ df[i].user \in Range(standard_sbms)
               /\ df[i].user \in Range(observed)
        /\ Cardinality(Range(UserName(df))) <= Cardinality(Range(observed))
        /\ \A i, j \in 1..Len(df) :
               observed[i] = observed[j] => df[i].user = df[j].user

\* C10: labels have been merged: a row's label has changed and the column
\* holds fewer distinct labels than before.
C10_Witness ==
    /\ pc = "done"
    /\ \E i \in 1..Len(df) : df[i].user # observed[i]
    /\ Cardinality(Range(UserName(df))) < Cardinality(Range(observed))

====
